---- MODULE Spec2Model ----
(***************************************************************************)
(* A model of gnumeric-py's cell value type system (src/src/cell.py) and   *)
(* of the sheet's cell addressing and bounding rectangle (src/src/sheet.py)*)
(*                                                                         *)
(* XML attributes and element text are Python strings; they are modelled   *)
(* as sequences of one-character strings so that str(), int(), float(),    *)
(* bool(), upper() and startswith() are computed, not assumed.             *)
(***************************************************************************)
EXTENDS Integers, Sequences, FiniteSets, TLC

VARIABLES sheetType, cells, maxRowText, maxColText, handle, fresh, last, pre, nops

vars == <<sheetType, cells, maxRowText, maxColText, handle, fresh, last, pre, nops>>

(***************************************************************************)
(* Bounds of the model.                                                    *)
(***************************************************************************)
\* max_allowed_row and max_allowed_column of the modelled sheet (Rows-1, Cols-1)
MaxAllowed == 1
\* number of operations in one behaviour of Spec (every value kind, every directive)
MaxOps == 1
\* number of operations in one behaviour of SpecSeq (the mutating calls, fewer values)
MaxSeqOps == 2

(***************************************************************************)
(* Program constants: cell.py:23-31, sheet.py:29-30.                       *)
(***************************************************************************)
VALUE_TYPE_EXPR == -10
VALUE_TYPE_EMPTY == 10
VALUE_TYPE_BOOLEAN == 20
VALUE_TYPE_INTEGER == 30
VALUE_TYPE_FLOAT == 40
VALUE_TYPE_ERROR == 50
VALUE_TYPE_STRING == 60
VALUE_TYPE_CELLRANGE == 70
VALUE_TYPE_ARRAY == 80

SHEET_TYPE_REGULAR == "regular"
SHEET_TYPE_OBJECT == "object"

ValueTypes == {VALUE_TYPE_EXPR, VALUE_TYPE_EMPTY, VALUE_TYPE_BOOLEAN, VALUE_TYPE_INTEGER,
               VALUE_TYPE_FLOAT, VALUE_TYPE_ERROR, VALUE_TYPE_STRING, VALUE_TYPE_CELLRANGE,
               VALUE_TYPE_ARRAY}

(***************************************************************************)
(* Python strings and the conversions the code applies to them.            *)
(***************************************************************************)
\* Python's None where a string may stand (absent text, absent attribute).
\* Its element is not a character, so it differs from every string.
None == <<"<None>">>

Digits == <<"0", "1", "2", "3", "4", "5", "6", "7", "8", "9">>
LowerCase == <<"a", "b", "c", "d", "e", "f", "g", "h", "i", "j", "k", "l", "m",
               "n", "o", "p", "q", "r", "s", "t", "u", "v", "w", "x", "y", "z">>
UpperCase == <<"A", "B", "C", "D", "E", "F", "G", "H", "I", "J", "K", "L", "M",
               "N", "O", "P", "Q", "R", "S", "T", "U", "V", "W", "X", "Y", "Z">>

IsDigit(ch) == \E i \in 1..10 : Digits[i] = ch
DigitVal(ch) == (CHOOSE i \in 1..10 : Digits[i] = ch) - 1
DigitChar(d) == Digits[d + 1]

\* str.upper() on one character
UpperChar(ch) ==
    IF \E i \in 1..26 : LowerCase[i] = ch
    THEN UpperCase[CHOOSE i \in 1..26 : LowerCase[i] = ch]
    ELSE ch

\* str.upper()
StrUpper(s) == [i \in 1..Len(s) |-> UpperChar(s[i])]

\* str.startswith(prefix) for a one-character prefix
StartsWith(s, ch) == Len(s) >= 1 /\ s[1] = ch

RECURSIVE NatToStr(_)
NatToStr(n) == IF n < 10 THEN <<DigitChar(n)>> ELSE Append(NatToStr(n \div 10), DigitChar(n % 10))

\* str(n) and '%d' % n and '%a' % n of an int
IntToStr(n) == IF n < 0 THEN <<"-">> \o NatToStr(-n) ELSE NatToStr(n)

AllDigits(s) == Len(s) >= 1 /\ \A i \in 1..Len(s) : IsDigit(s[i])

RECURSIVE DigitsToNat(_)
DigitsToNat(s) == IF Len(s) = 0 THEN 0 ELSE 10 * DigitsToNat(SubSeq(s, 1, Len(s) - 1)) + DigitVal(s[Len(s)])

\* The unsigned part of a numeral after an optional sign
Unsigned(s) == IF StartsWith(s, "-") \/ StartsWith(s, "+") THEN Tail(s) ELSE s
Sign(s) == IF StartsWith(s, "-") THEN -1 ELSE 1

\* int(s) of a str: [exc, n]
StrToInt(s) ==
    IF AllDigits(Unsigned(s))
    THEN [exc |-> "none", n |-> Sign(s) * DigitsToNat(Unsigned(s))]
    ELSE [exc |-> "ValueError", n |-> 0]

\* A float is modelled by its number of tenths: 10.0 is 100, 2.5 is 25.
\* str(x) of such a float: the integer part, a point, one decimal digit.
FloatToStr(t) ==
    LET a == IF t < 0 THEN -t ELSE t
    IN  (IF t < 0 THEN <<"-">> ELSE <<>>) \o NatToStr(a \div 10) \o <<".">> \o <<DigitChar(a % 10)>>

PointAt(s) == IF \E i \in 1..Len(s) : s[i] = "." THEN CHOOSE i \in 1..Len(s) : s[i] = "." ELSE 0

\* float(s) of a str, for numerals with at most one decimal digit: [exc, t]
StrToFloat(s) ==
    LET u == Unsigned(s)
        p == PointAt(u)
        ip == IF p = 0 THEN u ELSE SubSeq(u, 1, p - 1)
        fp == IF p = 0 THEN <<>> ELSE SubSeq(u, p + 1, Len(u))
    IN  IF /\ (Len(ip) = 0 \/ AllDigits(ip))
           /\ (Len(fp) = 0 \/ (Len(fp) = 1 /\ IsDigit(fp[1])))
           /\ Len(ip) + Len(fp) >= 1
        THEN [exc |-> "none",
              t |-> Sign(s) * (10 * DigitsToNat(ip) + (IF Len(fp) = 1 THEN DigitVal(fp[1]) ELSE 0))]
        ELSE [exc |-> "ValueError", t |-> 0]

(***************************************************************************)
(* Python values handed to set_value and returned by get_value.            *)
(***************************************************************************)
VBool(b) == [kind |-> "bool", b |-> b]
VInt(n) == [kind |-> "int", n |-> n]
VFloat(t) == [kind |-> "float", t |-> t]
VStr(s) == [kind |-> "str", s |-> s]
VNone == [kind |-> "none"]
\* Expression(id, worksheet, cell): id is the cell's ExprID attribute or None
VExpr(id, ws, row, col) == [kind |-> "expr", id |-> id, ws |-> ws, row |-> row, col |-> col]

\* The worksheet under test and another worksheet of the same workbook
ThisSheet == "Sheet1"
OtherSheet == "Sheet2"

\* str(Expression): the class defines no __str__ in this repository's sources
ExprRepr == <<"<", "E", "x", "p", "r", ">">>

\* str(value)
PyStr(v) ==
    CASE v.kind = "bool" -> IF v.b THEN <<"T", "r", "u", "e">> ELSE <<"F", "a", "l", "s", "e">>
      [] v.kind = "int" -> IntToStr(v.n)
      [] v.kind = "float" -> FloatToStr(v.t)
      [] v.kind = "str" -> v.s
      [] v.kind = "none" -> <<"N", "o", "n", "e">>
      [] v.kind = "expr" -> ExprRepr

\* bool(value)
PyBool(v) ==
    CASE v.kind = "bool" -> v.b
      [] v.kind = "int" -> v.n # 0
      [] v.kind = "float" -> v.t # 0
      [] v.kind = "str" -> Len(v.s) > 0
      [] v.kind = "none" -> FALSE
      [] v.kind = "expr" -> TRUE

\* a == b of Python for the values of the model: bool, int and float compare as numbers
IsNumber(v) == v.kind \in {"bool", "int", "float"}
Tenths(v) ==
    CASE v.kind = "bool" -> IF v.b THEN 10 ELSE 0
      [] v.kind = "int" -> 10 * v.n
      [] v.kind = "float" -> v.t
PyEq(a, b) == IF IsNumber(a) /\ IsNumber(b) THEN Tenths(a) = Tenths(b) ELSE a = b

(***************************************************************************)
(* Cell (cell.py).  A cell element is a record of its attributes and text; *)
(* each is None when absent.                                               *)
(***************************************************************************)
CellElement(row, col, vt, id, text) ==
    [Row |-> row, Col |-> col, ValueType |-> vt, ExprID |-> id, text |-> text]

\* Cell.row, Cell.column, Cell.coordinate
row(c) == StrToInt(c.Row).n
column(c) == StrToInt(c.Col).n
coordinate(c) == <<row(c), column(c)>>

\* Cell.value_type: [exc, t]
value_type(c) ==
    IF c.ValueType # None
    THEN [exc |-> StrToInt(c.ValueType).exc, t |-> StrToInt(c.ValueType).n]
    ELSE IF c.ExprID # None THEN [exc |-> "none", t |-> VALUE_TYPE_EXPR]
    ELSE IF c.text = None THEN [exc |-> "AttributeError", t |-> 0]
    ELSE IF StartsWith(c.text, "=") THEN [exc |-> "none", t |-> VALUE_TYPE_EXPR]
    ELSE [exc |-> "UnrecognizedCellTypeException", t |-> 0]

\* Cell.__set_type
set_type(c, vt) ==
    IF vt = VALUE_TYPE_EXPR
    THEN [c EXCEPT !.ValueType = None]
    ELSE [c EXCEPT !.ValueType = IntToStr(vt)]

\* Cell.__set_expression_id
set_expression_id(c, expr_id) == [c EXCEPT !.ExprID = expr_id]

\* get_value without the conversion to the Python datatype: the raw text for every type
get_value_raw(c) ==
    [exc |-> value_type(c).exc, v |-> IF c.text = None THEN VNone ELSE VStr(c.text)]

\* Cell.get_value: [exc, v]
get_value(c) ==
    LET vt == value_type(c)
    IN  IF vt.exc # "none" THEN [exc |-> vt.exc, v |-> VNone]
        ELSE IF vt.t = VALUE_TYPE_BOOLEAN
        THEN [exc |-> "none", v |-> VBool(c.text # None /\ Len(c.text) > 0)]
        ELSE IF vt.t = VALUE_TYPE_INTEGER
        THEN IF c.text = None THEN [exc |-> "TypeError", v |-> VNone]
             ELSE [exc |-> StrToInt(c.text).exc, v |-> VInt(StrToInt(c.text).n)]
        ELSE IF vt.t = VALUE_TYPE_FLOAT
        THEN IF c.text = None THEN [exc |-> "TypeError", v |-> VNone]
             ELSE [exc |-> StrToFloat(c.text).exc, v |-> VFloat(StrToFloat(c.text).t)]
        ELSE IF vt.t = VALUE_TYPE_EXPR
        THEN [exc |-> "none", v |-> VExpr(c.ExprID, ThisSheet, row(c), column(c))]
        ELSE [exc |-> "none", v |-> IF c.text = None THEN VNone ELSE VStr(c.text)]

(***************************************************************************)
(* Sheet (sheet.py): the cell collection is the sequence of the children   *)
(* of the sheet's gnm:Cells element, in document order.  sheet.py builds   *)
(* its Cell objects as cell.Cell(element, sheet); a Cell is modelled as    *)
(* the position of the element it wraps, with this sheet as its worksheet  *)
(* (cell.py's constructor also takes a style element and the namespaces,   *)
(* which none of the modelled operations reads).                           *)
(***************************************************************************)
\* the emptiness selector without its test of @ValueType
is_empty_cell_by_text(c) == c.ExprID = None /\ (c.text = None \/ Len(c.text) = 0)

\* Sheet.__EMPTY_CELL_XPATH_SELECTOR
is_empty_cell(c) ==
    \/ c.ValueType = IntToStr(VALUE_TYPE_EMPTY)
    \/ (c.ValueType = None /\ c.ExprID = None /\ (c.text = None \/ Len(c.text) = 0))

\* Sheet.__get_empty_cells, as the positions of the selected elements
get_empty_cells(cs) == {i \in 1..Len(cs) : is_empty_cell(cs[i])}

\* Sheet.__get_non_empty_cells
get_non_empty_cells(cs) == SelectSeq(cs, LAMBDA c : ~is_empty_cell(c))

\* Sheet.__get_expression_id_cells, as the positions of the selected elements
get_expression_id_cells(cs) == {i \in 1..Len(cs) : cs[i].ExprID # None}

SetMax(S) == CHOOSE x \in S : \A y \in S : y <= x
SetMin(S) == CHOOSE x \in S : \A y \in S : x <= y
Rows(cs) == {row(cs[i]) : i \in 1..Len(cs)}
Columns(cs) == {column(cs[i]) : i \in 1..Len(cs)}

\* Sheet.max_allowed_column, Sheet.max_allowed_row
max_allowed_column == MaxAllowed
max_allowed_row == MaxAllowed

\* Sheet.max_column: [exc, n]
max_column(type, cs) ==
    IF type = SHEET_TYPE_OBJECT THEN [exc |-> "UnsupportedOperationException", n |-> 0]
    ELSE LET content_cells == get_non_empty_cells(cs)
         IN  [exc |-> "none", n |-> IF Len(content_cells) = 0 THEN -1 ELSE SetMax(Columns(content_cells))]

\* Sheet.max_row: [exc, n]
max_row(type, cs) ==
    IF type = SHEET_TYPE_OBJECT THEN [exc |-> "UnsupportedOperationException", n |-> 0]
    ELSE LET content_cells == get_non_empty_cells(cs)
         IN  [exc |-> "none", n |-> IF Len(content_cells) = 0 THEN -1 ELSE SetMax(Rows(content_cells))]

\* min_column without the check of the sheet type
min_column_any_sheet(type, cs) ==
    LET content_cells == get_non_empty_cells(cs)
    IN  [exc |-> "none", n |-> IF Len(content_cells) = 0 THEN -1 ELSE SetMin(Columns(content_cells))]

\* Sheet.min_column: [exc, n]
min_column(type, cs) ==
    IF type = SHEET_TYPE_OBJECT THEN [exc |-> "UnsupportedOperationException", n |-> 0]
    ELSE LET content_cells == get_non_empty_cells(cs)
         IN  [exc |-> "none", n |-> IF Len(content_cells) = 0 THEN -1 ELSE SetMin(Columns(content_cells))]

\* Sheet.min_row: [exc, n]
min_row(type, cs) ==
    IF type = SHEET_TYPE_OBJECT THEN [exc |-> "UnsupportedOperationException", n |-> 0]
    ELSE LET content_cells == get_non_empty_cells(cs)
         IN  [exc |-> "none", n |-> IF Len(content_cells) = 0 THEN -1 ELSE SetMin(Rows(content_cells))]

NoDimension == <<0, 0, 0, 0>>

\* Sheet.calculate_dimension: [exc, dim]
calculate_dimension(type, cs) ==
    IF type = SHEET_TYPE_OBJECT THEN [exc |-> "UnsupportedOperationException", dim |-> NoDimension]
    ELSE [exc |-> "none",
          dim |-> <<min_row(type, cs).n, min_column(type, cs).n, max_row(type, cs).n, max_column(type, cs).n>>]

\* is_valid_row without the upper limit
is_valid_row_no_limit(r) == 0 <= r

\* Sheet.is_valid_column, Sheet.is_valid_row
is_valid_column(col) == 0 <= col /\ col <= max_allowed_column
is_valid_row(r) == 0 <= r /\ r <= max_allowed_row

\* cells.find('gnm:Cell[@Row="%d"][@Col="%d"]'): the position of the first match, 0 for None
find_cell(cs, row_idx, col_idx) ==
    LET hits == {i \in 1..Len(cs) : cs[i].Row = IntToStr(row_idx) /\ cs[i].Col = IntToStr(col_idx)}
    IN  IF hits = {} THEN 0 ELSE SetMin(hits)

\* __create_and_get_new_cell with a NEW_CELL that carries no ValueType
create_and_get_new_cell_untyped(cs, row_idx, col_idx) ==
    Append(cs, CellElement(IntToStr(row_idx), IntToStr(col_idx), None, None, None))

\* Sheet.__create_and_get_new_cell: the collection with the NEW_CELL element appended
create_and_get_new_cell(cs, row_idx, col_idx) ==
    Append(cs, CellElement(IntToStr(row_idx), IntToStr(col_idx), IntToStr(VALUE_TYPE_EMPTY), None, None))

\* Sheet.cell without the lookup of an existing cell
cell_no_lookup(cs, row_idx, col_idx, create) ==
    IF ~is_valid_row(row_idx) \/ ~is_valid_column(col_idx) \/ ~create
    THEN [exc |-> "IndexError", cells |-> cs, at |-> 0]
    ELSE [exc |-> "none", cells |-> create_and_get_new_cell(cs, row_idx, col_idx), at |-> Len(cs) + 1]

\* Sheet.cell: [exc, cells, at], at the position of the element the returned Cell wraps
cell(cs, row_idx, col_idx, create) ==
    IF ~is_valid_row(row_idx) THEN [exc |-> "IndexError", cells |-> cs, at |-> 0]
    ELSE IF ~is_valid_column(col_idx) THEN [exc |-> "IndexError", cells |-> cs, at |-> 0]
    ELSE LET cell_found == find_cell(cs, row_idx, col_idx)
         IN  IF cell_found = 0
             THEN IF create
                  THEN [exc |-> "none", cells |-> create_and_get_new_cell(cs, row_idx, col_idx),
                        at |-> Len(cs) + 1]
                  ELSE [exc |-> "IndexError", cells |-> cs, at |-> 0]
             ELSE [exc |-> "none", cells |-> cs, at |-> cell_found]

\* Sheet.cell_text: [exc, cells, text]
cell_text(cs, row_idx, col_idx) ==
    LET r == cell(cs, row_idx, col_idx, FALSE)
    IN  [exc |-> r.exc, cells |-> r.cells, text |-> IF r.exc = "none" THEN r.cells[r.at].text ELSE None]

\* Sheet.get_expression_map: a function from the ids to [coord, text]; as in dict(),
\* of two cells with one id the later one in document order stays
ExprMapCells(cs) == {i \in get_expression_id_cells(cs) : cs[i].text # None}
get_expression_map(cs) ==
    [k \in {cs[i].ExprID : i \in ExprMapCells(cs)} |->
        LET i == SetMax({j \in ExprMapCells(cs) : cs[j].ExprID = k})
        IN  [coord |-> coordinate(cs[i]), text |-> cs[i].text]]

(***************************************************************************)
(* Expression (src/expression.py is not among the sources; its three       *)
(* methods follow the specification's section 4.3).                        *)
(***************************************************************************)
\* Expression.get_all_cells: the positions of the cells that use the expression
ExprAllCells(cs, e) ==
    IF e.id = None THEN {find_cell(cs, e.row, e.col)} \ {0}
    ELSE {i \in get_expression_id_cells(cs) : cs[i].ExprID = e.id}

\* Expression.get_originating_cell: [exc, at]
ExprOriginatingCell(cs, e) ==
    IF e.id = None THEN [exc |-> "none", at |-> find_cell(cs, e.row, e.col)]
    ELSE IF e.id \in DOMAIN get_expression_map(cs)
    THEN [exc |-> "none",
          at |-> find_cell(cs, get_expression_map(cs)[e.id].coord[1], get_expression_map(cs)[e.id].coord[2])]
    ELSE [exc |-> "KeyError", at |-> 0]

\* Expression.value: the literal text of the originating cell
ExprValue(cs, e) ==
    IF e.id = None THEN cs[find_cell(cs, e.row, e.col)].text
    ELSE get_expression_map(cs)[e.id].text

(***************************************************************************)
(* Cell.set_value (cell.py:118-178).                                       *)
(***************************************************************************)
\* The value_type argument of set_value
Infer == [d |-> "infer"]
Keep == [d |-> "keep"]
Tag(t) == [d |-> "tag", t |-> t]

\* value is None, the empty string forgotten
IsNoneValue(v) == v.kind = "none"

\* value in ('', None)
IsEmptyValue(v) == v.kind = "none" \/ (v.kind = "str" /\ Len(v.s) = 0)

\* cell.py:139-152, the type set_value resolves: [exc, t]
ResolveType(c, v, d) ==
    IF d = Infer
    THEN IF v.kind = "bool" THEN [exc |-> "none", t |-> VALUE_TYPE_BOOLEAN]
         ELSE IF v.kind = "int" THEN [exc |-> "none", t |-> VALUE_TYPE_INTEGER]
         ELSE IF v.kind = "float" THEN [exc |-> "none", t |-> VALUE_TYPE_FLOAT]
         ELSE IF IsEmptyValue(v) THEN [exc |-> "none", t |-> VALUE_TYPE_EMPTY]
         ELSE IF v.kind = "expr" \/ StartsWith(v.s, "=") THEN [exc |-> "none", t |-> VALUE_TYPE_EXPR]
         ELSE IF value_type(c).exc # "none" THEN value_type(c)
         ELSE IF value_type(c).t \in {VALUE_TYPE_EMPTY, VALUE_TYPE_BOOLEAN, VALUE_TYPE_INTEGER,
                                      VALUE_TYPE_FLOAT, VALUE_TYPE_ERROR}
         THEN [exc |-> "none", t |-> VALUE_TYPE_STRING]
         ELSE value_type(c)
    ELSE IF d = Keep THEN value_type(c)
    ELSE [exc |-> "none", t |-> d.t]

\* cell.py:162-164, the id an Expression is stored under: [exc, id]
ResolveExprId(cs, e) ==
    IF e.id = None /\ <<"N", "o", "n", "e">> \notin DOMAIN get_expression_map(cs)
    THEN IF DOMAIN get_expression_map(cs) = {}
         THEN [exc |-> "ValueError", id |-> None]
         ELSE IF \E k \in DOMAIN get_expression_map(cs) : StrToInt(k).exc # "none"
         THEN [exc |-> "ValueError", id |-> None]
         ELSE [exc |-> "none",
               id |-> IntToStr(SetMax({StrToInt(k).n : k \in DOMAIN get_expression_map(cs)}) + 1)]
    ELSE [exc |-> "none", id |-> IF e.id = None THEN <<"N", "o", "n", "e">> ELSE e.id]

\* cell.py:158-174 with the text of the cell cleared before the worksheet and the id are examined
SetExpressionClearFirst(cs, i, e) ==
    LET cleared == [cs EXCEPT ![i].text = None]
    IN  IF e.ws # ThisSheet THEN [exc |-> "NotImplementedError", cells |-> cleared]
        ELSE LET rid == ResolveExprId(cs, e)
                 all == ExprAllCells(cs, e)
                 orig == ExprOriginatingCell(cs, e)
             IN  IF rid.exc # "none" THEN [exc |-> rid.exc, cells |-> cleared]
                 ELSE IF Cardinality(all) = 1 /\ orig.exc # "none" THEN [exc |-> orig.exc, cells |-> cleared]
                 ELSE IF Cardinality(all) = 1 /\ coordinate(cs[orig.at]) = coordinate(cs[i])
                 THEN [exc |-> "none", cells |-> [cs EXCEPT ![i].text = ExprValue(cs, e)]]
                 ELSE LET shared == IF Cardinality(all) = 1
                                    THEN [cs EXCEPT ![orig.at] = set_expression_id(cs[orig.at], rid.id)]
                                    ELSE cs
                      IN  [exc |-> "none",
                           cells |-> [shared EXCEPT ![i] = set_expression_id([shared[i] EXCEPT !.text = None], rid.id)]]

\* cell.py:158-174, storing an Expression into the cell at position i: [exc, cells]
SetExpression(cs, i, e) ==
    IF e.ws # ThisSheet THEN [exc |-> "NotImplementedError", cells |-> cs]
    ELSE LET rid == ResolveExprId(cs, e)
             all == ExprAllCells(cs, e)
             orig == ExprOriginatingCell(cs, e)
         IN  IF rid.exc # "none" THEN [exc |-> rid.exc, cells |-> cs]
             ELSE IF Cardinality(all) = 1 /\ orig.exc # "none" THEN [exc |-> orig.exc, cells |-> cs]
             ELSE IF Cardinality(all) = 1 /\ coordinate(cs[orig.at]) = coordinate(cs[i])
             THEN [exc |-> "none", cells |-> [cs EXCEPT ![i].text = ExprValue(cs, e)]]
             ELSE LET shared == IF Cardinality(all) = 1
                                THEN [cs EXCEPT ![orig.at] = set_expression_id(cs[orig.at], rid.id)]
                                ELSE cs
                  IN  [exc |-> "none",
                       cells |-> [shared EXCEPT ![i] = set_expression_id([shared[i] EXCEPT !.text = None], rid.id)]]

\* Cell.set_value on the cell at position i of the collection: [exc, cells]
set_value(cs, i, v, d) ==
    LET rt == ResolveType(cs[i], v, d)
    IN  IF rt.exc # "none" THEN [exc |-> rt.exc, cells |-> cs]
        ELSE LET written ==
                    IF rt.t = VALUE_TYPE_BOOLEAN
                    THEN [exc |-> "none", cells |-> [cs EXCEPT ![i].text = StrUpper(PyStr(VBool(PyBool(v))))]]
                    ELSE IF rt.t = VALUE_TYPE_EMPTY
                    THEN [exc |-> "none", cells |-> [cs EXCEPT ![i].text = None]]
                    ELSE IF rt.t = VALUE_TYPE_EXPR /\ v.kind = "expr"
                    THEN SetExpression(cs, i, v)
                    ELSE [exc |-> "none", cells |-> [cs EXCEPT ![i].text = PyStr(v)]]
             IN  IF written.exc # "none" THEN written
                 ELSE [exc |-> "none", cells |-> [written.cells EXCEPT ![i] = set_type(written.cells[i], rt.t)]]

\* _clean_data that deletes the cells without text instead of the empty cells
clean_data_without_text(type, cs, oldMaxCol, oldMaxRow) ==
    LET kept == SelectSeq(cs, LAMBDA c : c.text # None)
    IN  IF max_column(type, kept).exc # "none"
        THEN [exc |-> max_column(type, kept).exc, cells |-> kept, maxCol |-> oldMaxCol, maxRow |-> oldMaxRow]
        ELSE [exc |-> max_row(type, kept).exc, cells |-> kept,
              maxCol |-> IntToStr(max_column(type, kept).n),
              maxRow |-> IF max_row(type, kept).exc = "none" THEN IntToStr(max_row(type, kept).n) ELSE oldMaxRow]

\* _clean_data that records the greatest column and row of all the cells it was given
clean_data_stale_maxima(type, cs, oldMaxCol, oldMaxRow) ==
    LET kept == get_non_empty_cells(cs)
    IN  IF max_column(type, kept).exc # "none"
        THEN [exc |-> max_column(type, kept).exc, cells |-> kept, maxCol |-> oldMaxCol, maxRow |-> oldMaxRow]
        ELSE [exc |-> max_row(type, kept).exc, cells |-> kept,
              maxCol |-> IntToStr(IF Len(cs) = 0 THEN -1 ELSE SetMax(Columns(cs))),
              maxRow |-> IntToStr(IF Len(cs) = 0 THEN -1 ELSE SetMax(Rows(cs)))]

\* Sheet._clean_data: [exc, cells, maxCol, maxRow]; the empty cells are removed before the
\* recorded maxima are written, MaxCol first
clean_data(type, cs, oldMaxCol, oldMaxRow) ==
    LET kept == get_non_empty_cells(cs)
    IN  IF max_column(type, kept).exc # "none"
        THEN [exc |-> max_column(type, kept).exc, cells |-> kept, maxCol |-> oldMaxCol, maxRow |-> oldMaxRow]
        ELSE [exc |-> max_row(type, kept).exc, cells |-> kept,
              maxCol |-> IntToStr(max_column(type, kept).n),
              maxRow |-> IF max_row(type, kept).exc = "none" THEN IntToStr(max_row(type, kept).n) ELSE oldMaxRow]

(***************************************************************************)
(* The state machine.  A caller holds the Cell it last got from Sheet.cell *)
(* (handle: the position of the element it wraps, 0 for none); at the      *)
(* start it holds the last cell of the collection.  fresh is the position of the cell Sheet.cell created and   *)
(* nothing has written yet (0 for none).  last records the latest call and *)
(* its outcome, pre the state it was made in and the call before it.       *)
(***************************************************************************)
TxtFormula == <<"=", "f">>
TxtPlain == <<"a">>
TxtEmpty == <<>>

\* The cells a loaded file holds, one of each kind, at a given coordinate
LoadedCells(r, c) ==
    {CellElement(IntToStr(r), IntToStr(c), IntToStr(VALUE_TYPE_EMPTY), None, None),
     CellElement(IntToStr(r), IntToStr(c), IntToStr(VALUE_TYPE_BOOLEAN), None, <<"T", "R", "U", "E">>),
     CellElement(IntToStr(r), IntToStr(c), IntToStr(VALUE_TYPE_INTEGER), None, <<"7">>),
     CellElement(IntToStr(r), IntToStr(c), IntToStr(VALUE_TYPE_FLOAT), None, <<"2", ".", "5">>),
     CellElement(IntToStr(r), IntToStr(c), IntToStr(VALUE_TYPE_ERROR), None, <<"#", "N", "/", "A">>),
     CellElement(IntToStr(r), IntToStr(c), IntToStr(VALUE_TYPE_STRING), None, <<"s">>),
     CellElement(IntToStr(r), IntToStr(c), IntToStr(VALUE_TYPE_CELLRANGE), None, <<"A", "1">>),
     CellElement(IntToStr(r), IntToStr(c), IntToStr(VALUE_TYPE_ARRAY), None, <<"{", "1", "}">>),
     CellElement(IntToStr(r), IntToStr(c), None, None, <<"=", "g">>)}

\* A formula shared by two cells: the originating cell holds the text, the other the id alone
SharedOrigin(r, c) == CellElement(IntToStr(r), IntToStr(c), None, <<"1">>, TxtFormula)
SharedUser(r, c) == CellElement(IntToStr(r), IntToStr(c), None, <<"1">>, None)

\* The sheets a behaviour of Spec starts from
LoadedSheets ==
    {<<>>}
    \cup {<<k>> : k \in LoadedCells(0, 0)}
    \cup {<<SharedOrigin(0, 0), SharedUser(0, MaxAllowed)>>, <<SharedUser(0, MaxAllowed), SharedOrigin(0, 0)>>}
    \cup {<<SharedOrigin(0, 0), SharedUser(0, MaxAllowed), k>> : k \in LoadedCells(MaxAllowed, 0)}

\* The sheets a behaviour of SpecSeq starts from
SeqSheets ==
    {<<>>,
     <<CellElement(IntToStr(0), IntToStr(0), IntToStr(VALUE_TYPE_INTEGER), None, <<"7">>)>>,
     <<CellElement(IntToStr(0), IntToStr(0), IntToStr(VALUE_TYPE_EMPTY), None, None),
       CellElement(IntToStr(0), IntToStr(MaxAllowed), None, None, <<"=", "g">>),
       CellElement(IntToStr(MaxAllowed), IntToStr(0), IntToStr(VALUE_TYPE_STRING), None, <<"s">>)>>,
     <<SharedOrigin(0, 0), SharedUser(0, MaxAllowed),
       CellElement(IntToStr(MaxAllowed), IntToStr(0), None, None, <<"=", "g">>),
       CellElement(IntToStr(MaxAllowed), IntToStr(MaxAllowed), IntToStr(VALUE_TYPE_STRING), None, <<"s">>)>>}

\* The cell elements a file can hold: every tag or none, an ExprID or none, text of each kind
CellElements ==
    {CellElement(IntToStr(0), IntToStr(0), vt, id, text) :
        vt \in {None} \cup {IntToStr(t) : t \in ValueTypes},
        id \in {None, <<"1">>},
        text \in {None, TxtEmpty, TxtPlain, TxtFormula, <<"7">>}}

\* The sheets of chart type
ChartSheets ==
    {<<>>, <<CellElement(IntToStr(0), IntToStr(0), IntToStr(VALUE_TYPE_INTEGER), None, <<"7">>)>>}

NoCall ==
    [op |-> "none", row |-> 0, col |-> 0, create |-> FALSE, v |-> VNone, d |-> Infer,
     exc |-> "none", at |-> 0, text |-> None, n |-> 0, dim |-> NoDimension]

InitWith(regular, chart) ==
    /\ \/ sheetType = SHEET_TYPE_REGULAR /\ cells \in regular
       \/ sheetType = SHEET_TYPE_OBJECT /\ cells \in chart
    /\ maxRowText = IntToStr(max_row(SHEET_TYPE_REGULAR, cells).n)
    /\ maxColText = IntToStr(max_column(SHEET_TYPE_REGULAR, cells).n)
    /\ handle = Len(cells)
    /\ fresh = 0
    /\ last = NoCall
    /\ pre = [cells |-> cells, handle |-> handle, fresh |-> fresh, maxRowText |-> maxRowText,
              maxColText |-> maxColText, last |-> NoCall]
    /\ nops = 0

Init == InitWith(LoadedSheets, ChartSheets)
InitSeq == InitWith(SeqSheets, ChartSheets)
\* a sheet of one cell, of any content a file can hold
InitCell == InitWith({<<c>> : c \in CellElements}, {<<c>> : c \in CellElements})

Snapshot ==
    [cells |-> cells, handle |-> handle, fresh |-> fresh, maxRowText |-> maxRowText,
     maxColText |-> maxColText, last |-> last]

\* The (row, column) arguments: every allowed pair, and one pair beyond each end of each range
Coordinates ==
    ((0..MaxAllowed) \X (0..MaxAllowed))
    \cup {<<-1, 0>>, <<MaxAllowed + 1, 0>>, <<0, -1>>, <<0, MaxAllowed + 1>>}

\* ws.cell(r, c, create)
CellOp(bound) ==
    \E rc \in Coordinates, create \in BOOLEAN :
        LET r == rc[1]
            c == rc[2]
            res == cell(cells, r, c, create)
        IN  /\ nops < bound
            /\ cells' = res.cells
            /\ handle' = IF res.exc = "none" THEN res.at ELSE handle
            /\ fresh' = IF res.exc = "none" /\ Len(res.cells) > Len(cells) THEN res.at ELSE fresh
            /\ last' = [NoCall EXCEPT !.op = "cell", !.row = r, !.col = c, !.create = create,
                                      !.exc = res.exc, !.at = res.at]
            /\ pre' = Snapshot
            /\ nops' = nops + 1
            /\ UNCHANGED <<sheetType, maxRowText, maxColText>>

\* ws.cell_text(r, c)
CellTextOp(bound) ==
    \E rc \in Coordinates :
        LET r == rc[1]
            c == rc[2]
            res == cell_text(cells, r, c)
        IN  /\ nops < bound
            /\ cells' = res.cells
            /\ last' = [NoCall EXCEPT !.op = "cell_text", !.row = r, !.col = c,
                                      !.exc = res.exc, !.text = res.text]
            /\ pre' = Snapshot
            /\ nops' = nops + 1
            /\ UNCHANGED <<sheetType, maxRowText, maxColText, handle, fresh>>

\* The Expression objects a caller can hold: get_value() of a cell of this sheet whose
\* type is EXPR, and one of a formula cell of another worksheet
Expressions(cs) ==
    {get_value(cs[i]).v : i \in {j \in 1..Len(cs) : value_type(cs[j]) = [exc |-> "none", t |-> VALUE_TYPE_EXPR]}}
    \cup {VExpr(None, OtherSheet, 0, 0)}

\* the held Cell's set_value(v, d)
SetValueOp(bound, values, directives) ==
    \E v \in values \cup Expressions(cells), d \in directives :
        LET res == set_value(cells, handle, v, d)
        IN  /\ nops < bound
            /\ handle # 0
            /\ cells' = res.cells
            /\ last' = [NoCall EXCEPT !.op = "set_value", !.row = row(cells[handle]),
                                      !.col = column(cells[handle]), !.v = v, !.d = d, !.exc = res.exc,
                                      !.at = handle]
            /\ fresh' = IF fresh = handle THEN 0 ELSE fresh
            /\ pre' = Snapshot
            /\ nops' = nops + 1
            /\ UNCHANGED <<sheetType, maxRowText, maxColText, handle>>

\* ws._clean_data(); a held Cell whose element is removed is let go; last.n is the number of
\* elements the call removed
CleanDataOp(bound) ==
    LET res == clean_data(sheetType, cells, maxColText, maxRowText)
    IN  /\ nops < bound
        /\ cells' = res.cells
        /\ maxColText' = res.maxCol
        /\ maxRowText' = res.maxRow
        /\ handle' = IF handle = 0 \/ handle \in get_empty_cells(cells) THEN 0
                     ELSE Cardinality({i \in 1..handle : i \notin get_empty_cells(cells)})
        /\ fresh' = IF fresh = 0 \/ fresh \in get_empty_cells(cells) THEN 0
                    ELSE Cardinality({i \in 1..fresh : i \notin get_empty_cells(cells)})
        /\ last' = [NoCall EXCEPT !.op = "clean_data", !.exc = res.exc, !.n = Len(cells) - Len(res.cells)]
        /\ pre' = Snapshot
        /\ nops' = nops + 1
        /\ UNCHANGED sheetType

Queries == {"min_row", "min_column", "max_row", "max_column", "calculate_dimension",
            "max_allowed_row", "max_allowed_column"}

\* ws.min_row, ws.min_column, ws.max_row, ws.max_column, ws.calculate_dimension(),
\* ws.max_allowed_row, ws.max_allowed_column
QueryOp(bound) ==
    \E q \in Queries :
        LET res == CASE q = "min_row" -> min_row(sheetType, cells)
                     [] q = "min_column" -> min_column(sheetType, cells)
                     [] q = "max_row" -> max_row(sheetType, cells)
                     [] q = "max_column" -> max_column(sheetType, cells)
                     [] q = "max_allowed_row" -> [exc |-> "none", n |-> max_allowed_row]
                     [] q = "max_allowed_column" -> [exc |-> "none", n |-> max_allowed_column]
                     [] q = "calculate_dimension" -> [exc |-> calculate_dimension(sheetType, cells).exc, n |-> 0]
        IN  /\ nops < bound
            /\ last' = [NoCall EXCEPT !.op = q, !.exc = res.exc, !.n = res.n,
                                      !.dim = calculate_dimension(sheetType, cells).dim]
            /\ pre' = Snapshot
            /\ nops' = nops + 1
            /\ UNCHANGED <<sheetType, cells, maxRowText, maxColText, handle, fresh>>

\* the held Cell's value_type
ValueTypeOp(bound) ==
    LET res == value_type(cells[handle])
    IN  /\ nops < bound
        /\ handle # 0
        /\ last' = [NoCall EXCEPT !.op = "value_type", !.exc = res.exc, !.n = res.t, !.at = handle]
        /\ pre' = Snapshot
        /\ nops' = nops + 1
        /\ UNCHANGED <<sheetType, cells, maxRowText, maxColText, handle, fresh>>

\* the held Cell's get_value()
GetValueOp(bound) ==
    LET res == get_value(cells[handle])
    IN  /\ nops < bound
        /\ handle # 0
        /\ last' = [NoCall EXCEPT !.op = "get_value", !.exc = res.exc, !.v = res.v, !.at = handle]
        /\ pre' = Snapshot
        /\ nops' = nops + 1
        /\ UNCHANGED <<sheetType, cells, maxRowText, maxColText, handle, fresh>>

\* The values and directives of Spec: one value of each kind, every directive
Values == {VBool(TRUE), VBool(FALSE), VInt(10), VFloat(100), VStr(TxtEmpty), VNone,
           VStr(TxtFormula), VStr(TxtPlain)}
Directives == {Infer, Keep} \cup {Tag(t) : t \in ValueTypes}

\* The values and directives of SpecSeq
SeqValues == {VInt(10), VStr(TxtEmpty), VNone, VStr(TxtFormula), VStr(TxtPlain)}
SeqDirectives == {Infer, Keep, Tag(VALUE_TYPE_EXPR)}

Next ==
    \/ CellOp(MaxOps)
    \/ CellTextOp(MaxOps)
    \/ SetValueOp(MaxOps, Values, Directives)
    \/ CleanDataOp(MaxOps)
    \/ QueryOp(MaxOps)

\* The calls that change a sheet
NextSeq ==
    \/ CellOp(MaxSeqOps)
    \/ SetValueOp(MaxSeqOps, SeqValues, SeqDirectives)
    \/ CleanDataOp(MaxSeqOps)

\* The reads of one cell
NextCell ==
    \/ ValueTypeOp(MaxOps)
    \/ GetValueOp(MaxOps)

Spec == Init /\ [][Next]_vars
SpecSeq == InitSeq /\ [][NextSeq]_vars
SpecCell == InitCell /\ [][NextCell]_vars

(***************************************************************************)
(* Properties.                                                             *)
(***************************************************************************)
Ok(t) == [exc |-> "none", t |-> t]
IsPlainString(v) == v.kind = "str" /\ Len(v.s) > 0 /\ ~StartsWith(v.s, "=")
IsFormulaString(v) == v.kind = "str" /\ StartsWith(v.s, "=")

\* the latest call was set_value and it returned
SetValueReturned == last.op = "set_value" /\ last.exc = "none"
\* the cell set_value was called on, after and before the call
TargetCell == cells[last.at]
PriorCell == pre.cells[last.at]

\* The priority table of type inference, by value kind and prior type
InferTable(v, prior) ==
    CASE v.kind = "bool" -> VALUE_TYPE_BOOLEAN
      [] v.kind = "int" -> VALUE_TYPE_INTEGER
      [] v.kind = "float" -> VALUE_TYPE_FLOAT
      [] v.kind = "none" \/ (v.kind = "str" /\ Len(v.s) = 0) -> VALUE_TYPE_EMPTY
      [] v.kind = "expr" \/ IsFormulaString(v) -> VALUE_TYPE_EXPR
      [] IsPlainString(v) /\ prior \in {VALUE_TYPE_EMPTY, VALUE_TYPE_BOOLEAN, VALUE_TYPE_INTEGER,
                                          VALUE_TYPE_FLOAT, VALUE_TYPE_ERROR} -> VALUE_TYPE_STRING
      [] OTHER -> prior

\* C1: after set_value(v, 'infer') on a cell whose type is defined, value_type returns the
\* type the priority table gives for the kind of v and the prior type of the cell.
C1_InferFollowsTable ==
    (SetValueReturned /\ last.d = Infer /\ value_type(PriorCell).exc = "none")
        => value_type(TargetCell) = Ok(InferTable(last.v, value_type(PriorCell).t))

\* C2: after set_value(v, 'keep') on a cell whose type is defined, value_type returns the
\* type it returned before the call.
C2_KeepKeepsType ==
    (SetValueReturned /\ last.d = Keep /\ value_type(PriorCell).exc = "none")
        => value_type(TargetCell) = value_type(PriorCell)

\* C4: after set_value(v, T) with an explicit type tag T, value_type returns T.
C4_ExplicitTagIsType ==
    (SetValueReturned /\ last.d.d = "tag") => value_type(TargetCell) = Ok(last.d.t)

\* C3: for x in {True, 10, 10.0}, on a regular sheet set_value(x) with 'infer' returns and
\* get_value() then returns a value equal to x.
C3_RoundTrip ==
    (last.op = "set_value" /\ last.d = Infer /\ sheetType = SHEET_TYPE_REGULAR
     /\ last.v \in {VBool(TRUE), VInt(10), VFloat(100)})
        => /\ last.exc = "none"
           /\ get_value(TargetCell).exc = "none"
           /\ PyEq(get_value(TargetCell).v, last.v)

\* C3 happens: 10.0 was set into a cell that held a shared formula and is read back
C3_Witness ==
    /\ last.op = "set_value" /\ last.d = Infer /\ sheetType = SHEET_TYPE_REGULAR
    /\ last.v = VFloat(100)
    /\ PriorCell.ExprID # None
    /\ get_value(TargetCell) = [exc |-> "none", v |-> VFloat(100)]

\* a cell is materialized at (r, c)
Materialized(cs, r, c) == \E i \in 1..Len(cs) : row(cs[i]) = r /\ column(cs[i]) = c
OutOfBounds(r, c) == r < 0 \/ r > MaxAllowed \/ c < 0 \/ c > MaxAllowed

C6_IndexErrorNoMutation ==
    /\ (last.op = "cell"
        /\ (OutOfBounds(last.row, last.col)
            \/ (~Materialized(pre.cells, last.row, last.col) /\ ~last.create)))
           => (last.exc = "IndexError" /\ cells = pre.cells)
    /\ (last.op = "cell_text"
        /\ (OutOfBounds(last.row, last.col) \/ ~Materialized(pre.cells, last.row, last.col)))
           => (last.exc = "IndexError" /\ cells = pre.cells)

\* C6 happens: cell(r, c) with create=True and a row beyond max_allowed_row, on a sheet with cells
C6_Witness ==
    /\ last.op = "cell" /\ last.create /\ last.row = MaxAllowed + 1
    /\ last.exc = "IndexError"
    /\ Len(cells) > 0

Dimension(cs) == calculate_dimension(SHEET_TYPE_REGULAR, cs).dim
EmptyDimension == <<-1, -1, -1, -1>>
Outside(dim, r, c) == r < dim[1] \/ c < dim[2] \/ r > dim[3] \/ c > dim[4]
Least(a, b) == IF a < b THEN a ELSE b
Greatest(a, b) == IF a > b THEN a ELSE b
\* the smallest rectangle that contains the rectangle dim (none when dim is the empty
\* sheet's) and the coordinate (r, c)
Hull(dim, r, c) ==
    IF dim = EmptyDimension THEN <<r, c, r, c>>
    ELSE <<Least(dim[1], r), Least(dim[2], c), Greatest(dim[3], r), Greatest(dim[4], c)>>

BoundingQueries == {"min_row", "min_column", "max_row", "max_column", "calculate_dimension"}

\* C9: on a sheet of type SHEET_TYPE_OBJECT min_row, min_column, max_row, max_column and
\* calculate_dimension() raise UnsupportedOperationException whatever the cells, and
\* max_allowed_row and max_allowed_column return their values.
C9_ChartSheetQueries ==
    /\ sheetType = SHEET_TYPE_OBJECT
          => /\ min_row(sheetType, cells).exc = "UnsupportedOperationException"
             /\ min_column(sheetType, cells).exc = "UnsupportedOperationException"
             /\ max_row(sheetType, cells).exc = "UnsupportedOperationException"
             /\ max_column(sheetType, cells).exc = "UnsupportedOperationException"
             /\ calculate_dimension(sheetType, cells).exc = "UnsupportedOperationException"
    /\ (sheetType = SHEET_TYPE_OBJECT /\ last.op \in BoundingQueries)
          => last.exc = "UnsupportedOperationException"
    /\ (sheetType = SHEET_TYPE_OBJECT /\ last.op \in {"max_allowed_row", "max_allowed_column"})
          => (last.exc = "none" /\ last.n = MaxAllowed)

\* C9 happens: min_column was asked of a chart sheet that holds a cell
C9_Witness ==
    /\ sheetType = SHEET_TYPE_OBJECT
    /\ last.op = "min_column"
    /\ Len(cells) > 0

\* C10: on a sheet of type SHEET_TYPE_OBJECT cell(r, c, create) and cell_text(r, c) raise
\* UnsupportedOperationException for every (r, c) and materialize no cell.
C10_ChartSheetAddressing ==
    (sheetType = SHEET_TYPE_OBJECT /\ last.op \in {"cell", "cell_text"})
        => (last.exc = "UnsupportedOperationException" /\ cells = pre.cells)

\* the ExprIDs the cells of a collection carry
CarriedIds(cs) == {cs[i].ExprID : i \in 1..Len(cs)} \ {None}

\* the latest call was B.set_value(A.get_value()) with the default 'infer' on a regular sheet,
\* A a cell of the sheet with literal formula text and no ExprID, B another cell
SharingCall ==
    /\ last.op = "set_value" /\ last.d = Infer /\ sheetType = SHEET_TYPE_REGULAR
    /\ last.v.kind = "expr" /\ last.v.ws = ThisSheet /\ last.v.id = None
    /\ find_cell(pre.cells, last.v.row, last.v.col) \notin {0, last.at}
    /\ pre.cells[find_cell(pre.cells, last.v.row, last.v.col)].ExprID = None
    /\ StartsWith(pre.cells[find_cell(pre.cells, last.v.row, last.v.col)].text, "=")
\* the position of A
SharingSource == find_cell(pre.cells, last.v.row, last.v.col)

\* C11: after B.set_value(A.get_value()), A a formula cell without ExprID and B another cell
\* of the same regular sheet (with or without expression ids), A carries an ExprID and its
\* text is cleared, B carries the same ExprID with absent text, and get_expression_map()
\* maps that id to (A's coordinate, the formula text).
C11_ExpressionSharing ==
    SharingCall
        => /\ last.exc = "none"
           /\ cells[SharingSource].ExprID # None
           /\ cells[SharingSource].text = None
           /\ TargetCell.ExprID = cells[SharingSource].ExprID
           /\ TargetCell.text = None
           /\ cells[SharingSource].ExprID \in DOMAIN get_expression_map(cells)
           /\ get_expression_map(cells)[cells[SharingSource].ExprID]
                 = [coord |-> coordinate(pre.cells[SharingSource]), text |-> pre.cells[SharingSource].text]

\* C12: set_value(e, d) with e an Expression of another worksheet raises NotImplementedError
\* for every directive d and leaves the text, ValueType and ExprID of the cell as they were.
C12_CrossSheetRejected ==
    (last.op = "set_value" /\ last.v.kind = "expr" /\ last.v.ws # ThisSheet)
        => (last.exc = "NotImplementedError" /\ cells = pre.cells)

\* the positions of the cells that are not empty: a cell is empty iff its ValueType is EMPTY,
\* or it has no ValueType, no ExprID and text of length zero
ContentAt(cs) ==
    {i \in 1..Len(cs) :
        ~(\/ cs[i].ValueType = <<"1", "0">>
          \/ (cs[i].ValueType = None /\ cs[i].ExprID = None /\ (cs[i].text = None \/ cs[i].text = <<>>)))}
\* the rectangle (min row, min column, max row, max column) of a set of positions
Rectangle(cs, at) ==
    IF at = {} THEN EmptyDimension
    ELSE <<SetMin({row(cs[i]) : i \in at}), SetMin({column(cs[i]) : i \in at}),
           SetMax({row(cs[i]) : i \in at}), SetMax({column(cs[i]) : i \in at})>>

C15_OneFormulaPerId ==
    \A k \in CarriedIds(cells) :
        Cardinality({i \in 1..Len(cells) : cells[i].ExprID = k /\ cells[i].text # None}) = 1

\* C16: every cell is tagged with a ValueType, carries an ExprID, or has text that begins
\* with '=', so that value_type returns for every cell.
C16_WellFormedCells ==
    \A i \in 1..Len(cells) :
        /\ \/ cells[i].ValueType # None
           \/ cells[i].ExprID # None
           \/ (cells[i].text # None /\ StartsWith(cells[i].text, "="))
        /\ value_type(cells[i]).exc = "none"

C18_ValueTypeOutcome ==
    (last.op \in {"value_type", "get_value"})
        => /\ (last.op = "value_type" /\ cells[last.at].ValueType # None)
                 => (last.exc = "none" /\ IntToStr(last.n) = cells[last.at].ValueType)
           /\ (last.op = "value_type" /\ cells[last.at].ValueType = None
               /\ (cells[last.at].ExprID # None
                   \/ (cells[last.at].text # None /\ StartsWith(cells[last.at].text, "="))))
                 => (last.exc = "none" /\ last.n = VALUE_TYPE_EXPR)
           /\ (cells[last.at].ValueType = None /\ cells[last.at].ExprID = None
               /\ (cells[last.at].text = None \/ ~StartsWith(cells[last.at].text, "=")))
                 => last.exc = "UnrecognizedCellTypeException"

\* C19: when set_value raises, every cell of the sheet has the text, ValueType and ExprID it
\* had before the call.
C19_FailedSetValueNoMutation ==
    (last.op = "set_value" /\ last.exc # "none") => cells = pre.cells

\* C19 happens: set_value(v, 'keep') raised on a cell an earlier set_value had left with no
\* tag, no ExprID and plain text
C19_Witness ==
    /\ last.op = "set_value" /\ last.d = Keep /\ last.exc = "UnrecognizedCellTypeException"
    /\ pre.last.op = "set_value" /\ pre.last.exc = "none"
    /\ Len(cells) > 1

\* the latest call was set_value of an Expression of this sheet that resolved to type EXPR
\* and did not copy the expression over its own single cell
SharedBranchCall ==
    /\ last.op = "set_value" /\ sheetType = SHEET_TYPE_REGULAR
    /\ last.v.kind = "expr" /\ last.v.ws = ThisSheet
    /\ ResolveType(PriorCell, last.v, last.d) = Ok(VALUE_TYPE_EXPR)
    /\ ~(/\ Cardinality(ExprAllCells(pre.cells, last.v)) = 1
         /\ ExprOriginatingCell(pre.cells, last.v).at = last.at)

\* C20: in the shared branch set_value writes the expression's id when it has one; when it
\* has none the call returns whether or not the sheet has expression ids, and the id
\* written is carried by no cell before the call and is max(ids of the sheet) + 1.
C20_SharedIdAllocation ==
    SharedBranchCall
        => /\ (last.v.id # None /\ last.exc = "none") => TargetCell.ExprID = last.v.id
           /\ last.v.id = None
                 => /\ last.exc = "none"
                    /\ TargetCell.ExprID \notin CarriedIds(pre.cells) \cup {None}
                    /\ CarriedIds(pre.cells) # {}
                          => \A k \in CarriedIds(pre.cells) : StrToInt(TargetCell.ExprID).n > StrToInt(k).n

\* the positions of the cells that carry an ExprID and have text
FormulaIdCells(cs) == {i \in 1..Len(cs) : cs[i].ExprID # None /\ cs[i].text # None}

\* C21: get_expression_map() has exactly one entry per cell that carries an ExprID and has
\* text, from that ExprID to ((row, column), text) of the cell; set_value of a string that
\* begins with '=' gives the cell no ExprID (the attribute is as before the call, absent on
\* a cell that had none) and leaves get_expression_map() as it was.
C21_ExpressionMapEntries ==
    /\ \A i \in FormulaIdCells(cells) :
          /\ cells[i].ExprID \in DOMAIN get_expression_map(cells)
          /\ get_expression_map(cells)[cells[i].ExprID]
                = [coord |-> <<row(cells[i]), column(cells[i])>>, text |-> cells[i].text]
    /\ Cardinality(DOMAIN get_expression_map(cells)) = Cardinality(FormulaIdCells(cells))
    /\ (SetValueReturned /\ last.d = Infer /\ IsFormulaString(last.v))
          => /\ TargetCell.ExprID = PriorCell.ExprID
             /\ get_expression_map(cells) = get_expression_map(pre.cells)

\* the latest call was C.set_value(C.get_value()) with the default 'infer' on a regular
\* sheet, C a cell with literal formula text, no ValueType and no ExprID
SelfAssignment ==
    /\ last.op = "set_value" /\ last.d = Infer /\ sheetType = SHEET_TYPE_REGULAR
    /\ last.v.kind = "expr" /\ last.v.ws = ThisSheet /\ last.v.id = None
    /\ find_cell(pre.cells, last.v.row, last.v.col) = last.at
    /\ PriorCell.ValueType = None /\ PriorCell.ExprID = None
    /\ StartsWith(PriorCell.text, "=")

\* C22: C.set_value(C.get_value()), C an unshared formula cell of a regular sheet with or
\* without expression ids, returns, leaves the text of C the same formula, gives C no
\* ExprID, keeps value_type EXPR and changes no other cell.
C22_SelfAssignment ==
    SelfAssignment
        => /\ last.exc = "none"
           /\ TargetCell.text = PriorCell.text
           /\ TargetCell.ExprID = None
           /\ value_type(TargetCell) = Ok(VALUE_TYPE_EXPR)
           /\ \A i \in 1..Len(pre.cells) : i # last.at => cells[i] = pre.cells[i]
           /\ Len(cells) = Len(pre.cells)

\* C23: for b in {True, False}, after set_value(b) with 'infer' value_type is BOOLEAN and
\* get_value() returns b.
C23_BooleanRoundTrip ==
    (last.op = "set_value" /\ last.d = Infer /\ sheetType = SHEET_TYPE_REGULAR /\ last.v.kind = "bool")
        => /\ last.exc = "none"
           /\ value_type(TargetCell) = Ok(VALUE_TYPE_BOOLEAN)
           /\ get_value(TargetCell) = [exc |-> "none", v |-> last.v]

====
